---- MODULE Spec2Model ----
(***************************************************************************)
(* Knapsack optimisation: the Streamlit front end (app.py) that collects   *)
(* an instance, rejects duplicate items, hands the instance to main.py     *)
(* through input.json, and displays what it reads from chosen_items.xlsx;  *)
(* and the optimisation script (main.py) that loads the JSON request,      *)
(* builds the binary programme, has the solver maximise it, and writes     *)
(* the chosen items to chosen_items.xlsx.                                  *)
(***************************************************************************)
EXTENDS Integers, Sequences, FiniteSets, TLC

\* ------------------------------------------------------------------ bounds
MaxItems == 3      \* most items a user enters in one request
MaxVal == 2        \* largest item value entered
MaxWeight == 2     \* largest item weight entered
MaxCap == 3        \* largest capacity entered
MaxRequests == 2   \* requests one session makes when requests are repeated
SeqMaxItems == 2   \* most items per request when requests are repeated
ConcMaxItems == 1  \* most items per request when two sessions run at once

\* ------------------------------------------------------------ participants
Sessions == {1, 2}          \* browser sessions running app.py
Cli == 0                    \* main.py started from the command line
Procs == Sessions \cup {Cli}

VARIABLES
    limit,      \* most items a user of this deployment enters (fixed by Init)
    budget,     \* budget[p]: requests p may still start
    form,       \* form[s]: the widgets' values of session s at its last click
    pc,         \* pc[s]: where session s is in the script of app.py
    display,    \* display[s]: what session s shows
    jsonFile,   \* input.json: <<>> when absent, else <<content>>
    xlsxFile,   \* ../outputs/chosen_items.xlsx: <<>> when absent, else <<rows>>
    proc        \* proc[p]: the main.py process started by p

vars == <<limit, budget, form, pc, display, jsonFile, xlsxFile, proc>>

\* ----------------------------------------------------------------- helpers
RECURSIVE SumTo(_, _)
\* Python's sum(f(i) for i in 1..n)
SumTo(f, n) == IF n = 0 THEN 0 ELSE SumTo(f, n - 1) + f[n]

RECURSIVE SeqsUpTo(_, _)
\* the sequences over S of length 0..n
SeqsUpTo(S, n) ==
    IF n = 0 THEN {<<>>}
    ELSE LET shorter == SeqsUpTo(S, n - 1)
         IN  shorter \cup {Append(q, e) : q \in {r \in shorter : Len(r) = n - 1}, e \in S}

\* ------------------------------------------------------- app.py: the form
\* st.number_input(min_value=0) for a value, (min_value=1) for a weight
FormItems == [value : 0..MaxVal, weight : 1..MaxWeight]

\* num_items has min_value=1, capacity has min_value=1
FormInstances(n) ==
    [capacity : 1..MaxCap, items : SeqsUpTo(FormItems, n) \ {<<>>}]

\* a number_input without value= starts at its min_value
DefaultForm == [capacity |-> 1, items |-> <<[value |-> 0, weight |-> 1]>>]

NoDisplay == [kind |-> "none", level |-> "none", idx |-> 0, rows |-> <<>>]

\* ------------------------------------------- app.py: the duplicate check
items_values(items) == [k \in 1..Len(items) |-> <<items[k].value, items[k].weight>>]

RECURSIVE DupScan(_, _, _)
\* the for loop over enumerate(items_values): the 0-based idx of the first
\* pair already in unique_items, or -1 when the loop ends without a break
DupScan(ivs, idx, unique_items) ==
    IF idx >= Len(ivs) THEN -1
    ELSE IF ivs[idx + 1] \in unique_items THEN idx
    ELSE DupScan(ivs, idx + 1, unique_items \cup {ivs[idx + 1]})

DupScanValueOnly(items) ==
    LET RECURSIVE scan(_, _)
        scan(idx, seen) ==
            IF idx >= Len(items) THEN -1
            ELSE IF items[idx + 1].value \in seen THEN idx
            ELSE scan(idx + 1, seen \cup {items[idx + 1].value})
    IN  scan(0, {})

\* the duplicate check of the button handler on the form's items
DuplicateIndex(items) == DupScan(items_values(items), 0, {})

\* ------------------------------------------------ app.py: the JSON handoff
input_data(f) ==
    [num_items |-> Len(f.items), capacity |-> f.capacity, items |-> f.items]

\* ------------------------------------------------------ main.py: the model
\* data["capacity"], data["items"] of the loaded JSON
LoadData(content) == [capacity |-> content.capacity, items |-> content.items]

NoData == [capacity |-> 0, items |-> <<>>]
NoProc == [pc |-> "none", data |-> NoData, x |-> <<>>]

\* weights = {i + 1: item["weight"] for i, item in enumerate(items)}
weights(items) == [i \in 1..Len(items) |-> items[i].weight]

values_from_weight(items) == [i \in 1..Len(items) |-> items[i].weight]

\* values = {i + 1: item["value"] for i, item in enumerate(items)}
values(items) == [i \in 1..Len(items) |-> items[i].value]

\* model.x = Var(model.item_indexes, domain=Binary)
Binary(n) == [1..n -> {0, 1}]

objectiveCount(vs, x) == SumTo([i \in 1..Len(vs) |-> x[i]], Len(vs))

\* sum(model.value[i] * model.x[i] for i in model.item_indexes)
objective(vs, x) == SumTo([i \in 1..Len(vs) |-> vs[i] * x[i]], Len(vs))

capacity_constraint_slack(ws, capacity, x) ==
    SumTo([i \in 1..Len(ws) |-> ws[i] * x[i]], Len(ws)) <= capacity + 1

\* sum(model.weight[i] * model.x[i] for i in model.item_indexes) <= model.capacity
capacity_constraint_rule(ws, capacity, x) ==
    SumTo([i \in 1..Len(ws) |-> ws[i] * x[i]], Len(ws)) <= capacity

\* The rule's expression holds no variable when every weight is 0 (0 * x is
\* the number 0) or there is no item: the rule then returns a Python bool, and
\* Constraint(rule=...) raises on a trivial Boolean.
ConstraintIsTrivial(ws) == \A i \in 1..Len(ws) : ws[i] = 0

Feasible(data) ==
    {x \in Binary(Len(data.items)) :
        capacity_constraint_rule(weights(data.items), data.capacity, x)}

\* what opt.solve(model) leaves in model.x when the solver ends: an optimal
\* assignment (which one among equals is the solver's choice), or, when the
\* programme is infeasible, no value at all (None, 2 here) for every x[i]
SolverAssignments(data) ==
    LET F == Feasible(data)
        vs == values(data.items)
    IN  IF F = {} THEN {[i \in 1..Len(data.items) |-> 2]}
        ELSE {x \in F : \A y \in F : objective(vs, y) <= objective(vs, x)}

\* [i for i in model.item_indexes if model.x[i].value == 1]
chosen_items(n, x) ==
    SelectSeq([i \in 1..n |-> i], LAMBDA i : x[i] = 1)

chosen_objects_zero_based(chosen, ws, vs) ==
    [k \in 1..Len(chosen) |->
        [item |-> chosen[k] - 1, weight |-> ws[chosen[k]], value |-> vs[chosen[k]]]]

\* [{"item": i, "weight": weights[i], "value": values[i]} for i in chosen_items]
chosen_objects(chosen, ws, vs) ==
    [k \in 1..Len(chosen) |->
        [item |-> chosen[k], weight |-> ws[chosen[k]], value |-> vs[chosen[k]]]]

\* the rows main.py writes for the data it loaded and the solver's x
ResultRows(data, x) ==
    chosen_objects(chosen_items(Len(data.items), x),
                   weights(data.items), values(data.items))

\* --------------------------------------------------------- app.py actions
\* st.button pressed: the script reruns with the widgets' values, checks
\* for duplicates and stops on the first one
Click(s) ==
    /\ pc[s] \in {"idle", "done", "stopped"}
    /\ budget[s] > 0
    /\ \E f \in FormInstances(limit) :
        LET idx == DuplicateIndex(f.items)
        IN  /\ form' = [form EXCEPT ![s] = f]
            /\ IF idx >= 0
               THEN /\ display' = [display EXCEPT ![s] =
                          [kind |-> "duplicate", level |-> "error",
                           idx |-> idx + 1, rows |-> <<>>]]
                    /\ pc' = [pc EXCEPT ![s] = "stopped"]
               ELSE /\ display' = [display EXCEPT ![s] = NoDisplay]
                    /\ pc' = [pc EXCEPT ![s] = "write_json"]
    /\ budget' = [budget EXCEPT ![s] = @ - 1]
    /\ proc' = [proc EXCEPT ![s] = NoProc]
    /\ UNCHANGED <<limit, jsonFile, xlsxFile>>

\* json.dump(input_data, json_file)
WriteJson(s) ==
    /\ pc[s] = "write_json"
    /\ jsonFile' = <<input_data(form[s])>>
    /\ pc' = [pc EXCEPT ![s] = "call"]
    /\ UNCHANGED <<limit, budget, form, display, xlsxFile, proc>>

\* call(['python', main_script_path, '--input', json_file_path]) starts
\* main.py and blocks until it exits
CallMain(s) ==
    /\ pc[s] = "call"
    /\ proc' = [proc EXCEPT ![s] = [NoProc EXCEPT !.pc = "start"]]
    /\ pc' = [pc EXCEPT ![s] = "wait"]
    /\ UNCHANGED <<limit, budget, form, display, jsonFile, xlsxFile>>

\* call() has returned (its return code is not looked at); the script reads
\* chosen_items.xlsx and displays it
ReadResult(s) ==
    /\ pc[s] = "wait"
    /\ proc[s].pc \in {"exited", "crashed"}
    /\ display' = [display EXCEPT ![s] =
          IF xlsxFile = <<>>
          THEN [kind |-> "file_not_found", level |-> "error", idx |-> 0, rows |-> <<>>]
          ELSE IF xlsxFile[1] = <<>>
          THEN [kind |-> "nothing_selected", level |-> "error", idx |-> 0, rows |-> <<>>]
          ELSE [kind |-> "results", level |-> "info", idx |-> 0, rows |-> xlsxFile[1]]]
    /\ pc' = [pc EXCEPT ![s] = "done"]
    /\ UNCHANGED <<limit, budget, form, jsonFile, xlsxFile, proc>>

\* -------------------------------------------------------- main.py actions
\* with open(input_file) as f: data = json.load(f), for the app's input.json
MainLoad(p) ==
    /\ p \in Sessions
    /\ proc[p].pc = "start"
    /\ jsonFile # <<>>
    /\ proc' = [proc EXCEPT ![p] = [@ EXCEPT !.pc = "loaded", !.data = LoadData(jsonFile[1])]]
    /\ UNCHANGED <<limit, budget, form, pc, display, jsonFile, xlsxFile>>

\* the model is built and opt.solve(model) returns
MainSolve(p) ==
    /\ proc[p].pc = "loaded"
    /\ ~ConstraintIsTrivial(weights(proc[p].data.items))
    /\ \E x \in SolverAssignments(proc[p].data) :
        proc' = [proc EXCEPT ![p] = [@ EXCEPT !.pc = "solved", !.x = x]]
    /\ UNCHANGED <<limit, budget, form, pc, display, jsonFile, xlsxFile>>

\* main.py ends on an exception before it writes anything: the constraint
\* is rejected, or the solver cannot be run (glpsol is looked up under
\* <cwd>/setup) or fails
MainCrash(p) ==
    /\ proc[p].pc = "loaded"
    /\ proc' = [proc EXCEPT ![p] = [@ EXCEPT !.pc = "crashed"]]
    /\ UNCHANGED <<limit, budget, form, pc, display, jsonFile, xlsxFile>>

\* df.to_excel(output_path, index=False), then the process exits
MainWrite(p) ==
    /\ proc[p].pc = "solved"
    /\ xlsxFile' = <<ResultRows(proc[p].data, proc[p].x)>>
    /\ proc' = [proc EXCEPT ![p] = [@ EXCEPT !.pc = "exited"]]
    /\ UNCHANGED <<limit, budget, form, pc, display, jsonFile>>

\* main.py --input <any JSON file>: nothing checks what the file holds
CliItems == [value : -1..MaxVal, weight : 0..MaxWeight]
CliInstances == [capacity : -1..MaxCap, items : SeqsUpTo(CliItems, MaxItems)]

CliInvoke ==
    /\ budget[Cli] > 0
    /\ proc[Cli].pc \in {"none", "exited", "crashed"}
    /\ \E d \in CliInstances :
        proc' = [proc EXCEPT ![Cli] = [NoProc EXCEPT !.pc = "loaded", !.data = LoadData(d)]]
    /\ budget' = [budget EXCEPT ![Cli] = @ - 1]
    /\ UNCHANGED <<limit, form, pc, display, jsonFile, xlsxFile>>

\* ----------------------------------------------------------- specifications
InitWith(n, b) ==
    /\ limit = n
    /\ budget = b
    /\ form = [s \in Sessions |-> DefaultForm]
    /\ pc = [s \in Sessions |-> "idle"]
    /\ display = [s \in Sessions |-> NoDisplay]
    /\ jsonFile = <<>>
    /\ xlsxFile = <<>>
    /\ proc = [p \in Procs |-> NoProc]

Next ==
    \E s \in Sessions :
        \/ Click(s)
        \/ WriteJson(s)
        \/ CallMain(s)
        \/ MainLoad(s)
        \/ MainSolve(s)
        \/ MainCrash(s)
        \/ MainWrite(s)
        \/ ReadResult(s)

\* one request of one session on a fresh deployment
Init == InitWith(MaxItems, [p \in Procs |-> IF p = 1 THEN 1 ELSE 0])
Spec == Init /\ [][Next]_vars

\* one session making several requests one after the other
InitSeq == InitWith(SeqMaxItems, [p \in Procs |-> IF p = 1 THEN MaxRequests ELSE 0])
SpecSeq == InitSeq /\ [][Next]_vars

\* two sessions, one request each, at the same time
InitConc == InitWith(ConcMaxItems, [p \in Procs |-> IF p \in Sessions THEN 1 ELSE 0])
SpecConc == InitConc /\ [][Next]_vars

\* main.py run from the command line on an arbitrary JSON request
InitCli == InitWith(MaxItems, [p \in Procs |-> IF p = Cli THEN 1 ELSE 0])
NextCli == CliInvoke \/ MainSolve(Cli) \/ MainCrash(Cli) \/ MainWrite(Cli)
SpecCli == InitCli /\ [][NextCli]_vars

\* ------------------------------------------------- definitions for the claims
Max(a, b) == IF a >= b THEN a ELSE b

RECURSIVE SumOver(_, _)
\* the sum of f over the index set S
SumOver(f, S) ==
    IF S = {} THEN 0
    ELSE LET i == CHOOSE j \in S : TRUE IN f[i] + SumOver(f, S \ {i})

SubsetWeight(f, S) == SumOver([i \in 1..Len(f.items) |-> f.items[i].weight], S)
SubsetValue(f, S) == SumOver([i \in 1..Len(f.items) |-> f.items[i].value], S)

\* the subsets of the instance's items that fit the capacity
Fitting(f) == {S \in SUBSET (1..Len(f.items)) : SubsetWeight(f, S) <= f.capacity}

\* the fitting subsets no fitting subset beats
Optima(f) ==
    LET F == Fitting(f)
    IN  {S \in F : \A T \in F : SubsetValue(f, T) <= SubsetValue(f, S)}

RECURSIVE dp(_, _, _)
\* dp[i][w]: the best value of the first i items within weight w
dp(items, i, w) ==
    IF i = 0 THEN 0
    ELSE IF items[i].weight > w THEN dp(items, i - 1, w)
    ELSE Max(dp(items, i - 1, w), dp(items, i - 1, w - items[i].weight) + items[i].value)

RECURSIVE Reconstruct(_, _, _)
\* the backward walk over the table: item i is taken iff dp[i][w] # dp[i-1][w]
Reconstruct(items, i, w) ==
    IF i = 0 THEN {}
    ELSE IF dp(items, i, w) # dp(items, i - 1, w)
         THEN {i} \cup Reconstruct(items, i - 1, w - items[i].weight)
         ELSE Reconstruct(items, i - 1, w)

Selected(x) == {i \in DOMAIN x : x[i] = 1}
RowItems(rows) == {rows[k].item : k \in 1..Len(rows)}
RowsValue(rows) == SumTo([k \in 1..Len(rows) |-> rows[k].value], Len(rows))
RowsWeight(rows) == SumTo([k \in 1..Len(rows) |-> rows[k].weight], Len(rows))

Solved(s) == proc[s].pc \in {"solved", "exited"}
Written(s) == proc[s].pc = "exited" /\ xlsxFile # <<>>

ValidInstance(f) ==
    /\ f.capacity >= 1
    /\ \A i \in 1..Len(f.items) : f.items[i].weight >= 1 /\ f.items[i].value >= 0

DuplicatePositions(items) ==
    {j \in 1..Len(items) : \E i \in 1..(j - 1) :
        items[i].value = items[j].value /\ items[i].weight = items[j].weight}

MinOf(S) == CHOOSE m \in S : \A k \in S : m <= k

NothingFits(f) == \A i \in 1..Len(f.items) : f.items[i].weight > f.capacity

\* the rows a correct run on instance f can write
PossibleRows(f) == {ResultRows(f, x) : x \in SolverAssignments(f)}

\* ------------------------------------------------------------------- claims
\* C1: the selection the solve step returns for a valid instance has the
\* maximum total value among the subsets that fit the capacity (the DP
\* optimum dp[n][W]), and the total value of the written records is the sum of
\* the values of the selected items.
C1_Optimality ==
    \A s \in Sessions :
        LET f == form[s]
            n == Len(f.items)
            sel == Selected(proc[s].x)
        IN  /\ Solved(s) =>
                /\ SubsetValue(f, sel) = dp(f.items, n, f.capacity)
                /\ \A T \in Fitting(f) : SubsetValue(f, T) <= SubsetValue(f, sel)
            /\ Written(s) =>
                /\ RowsValue(xlsxFile[1]) = SubsetValue(f, sel)
                /\ RowsValue(xlsxFile[1]) = dp(f.items, n, f.capacity)

\* a run on capacity 3, items (1,2), (2,1), (2,2) has written items 2 and 3
C1_Witness ==
    /\ Written(1)
    /\ form[1] = [capacity |-> 3,
                  items |-> <<[value |-> 1, weight |-> 2], [value |-> 2, weight |-> 1],
                              [value |-> 2, weight |-> 2]>>]
    /\ RowItems(xlsxFile[1]) = {2, 3}
    /\ RowsValue(xlsxFile[1]) = 4

C3_DuplicateRejection ==
    \A s \in Sessions :
        pc[s] # "idle" =>
            LET D == DuplicatePositions(form[s].items)
            IN  IF D # {}
                THEN /\ pc[s] = "stopped"
                     /\ display[s].kind = "duplicate"
                     /\ display[s].level = "error"
                     /\ display[s].idx = MinOf(D)
                     /\ jsonFile = <<>>
                     /\ xlsxFile = <<>>
                     /\ proc[s].pc = "none"
                ELSE /\ pc[s] # "stopped"
                     /\ display[s].kind # "duplicate"

\* the request (2,1), (2,1) is stopped with index 2
C3_Witness ==
    /\ pc[1] = "stopped"
    /\ form[1].items = <<[value |-> 2, weight |-> 1], [value |-> 2, weight |-> 1]>>
    /\ display[1].kind = "duplicate"
    /\ display[1].idx = 2

\* C4: an instance with capacity < 1, a weight < 1 or a value < 0 is never
\* optimised, whichever way it reaches main.py.
C4_InvalidNeverOptimized ==
    \A p \in Procs : Solved(p) => ValidInstance(proc[p].data)

\* C5: when no item fits the capacity, the request ends with an empty
\* selection that is not reported as an error.
C5_NothingFitsIsNoError ==
    \A s \in Sessions :
        (pc[s] = "done" /\ proc[s].pc = "exited" /\ NothingFits(form[s])) =>
            /\ display[s].rows = <<>>
            /\ display[s].level # "error"

\* C6: the written result holds one record per selected item, in ascending
\* item position, the position being the item's 1-based place in the form and
\* the record's weight and value those of the form's item at that place; the
\* JSON handoff keeps the form's items and their order.
C6_ResultRecords ==
    \A s \in Sessions :
        /\ (pc[s] \in {"call", "wait", "done"} /\ jsonFile # <<>>) =>
            /\ jsonFile[1].items = form[s].items
            /\ jsonFile[1].capacity = form[s].capacity
        /\ Written(s) =>
            LET rows == xlsxFile[1]
            IN  /\ RowItems(rows) = Selected(proc[s].x)
                /\ Len(rows) = Cardinality(Selected(proc[s].x))
                /\ \A k \in 1..Len(rows) :
                    /\ rows[k].item \in 1..Len(form[s].items)
                    /\ rows[k].weight = form[s].items[rows[k].item].weight
                    /\ rows[k].value = form[s].items[rows[k].item].value
                    /\ k > 1 => rows[k - 1].item < rows[k].item

\* a written result whose records are the form's items 1 and 3, in that order
C6_Witness ==
    /\ Written(1)
    /\ Len(form[1].items) = 3
    /\ Len(xlsxFile[1]) = 2
    /\ xlsxFile[1][1].item = 1
    /\ xlsxFile[1][2].item = 3
    /\ form[1].items[1] # form[1].items[3]

\* C7: with two sessions at once, a session whose own run of main.py wrote a
\* result is shown a result of its own instance, computed from its own request.
C7_OwnResult ==
    \A s \in Sessions :
        (pc[s] = "done" /\ proc[s].pc = "exited") =>
            /\ proc[s].data = LoadData(input_data(form[s]))
            /\ display[s].rows \in PossibleRows(form[s])

\* C8: a result shown for a request is a result of that request's own
\* (capacity, items), never one left over from an earlier request.
C8_NoStaleResult ==
    \A s \in Sessions :
        (pc[s] = "done" /\ display[s].kind = "results") =>
            display[s].rows \in PossibleRows(form[s])

\* C9: a request that failed (a duplicate, or main.py ending without writing
\* a result) ends with an error shown, and not with a selection or the
\* 'nothing selected' outcome of a successful run.
C9_FailuresVisible ==
    \A s \in Sessions :
        (pc[s] \in {"done", "stopped"}
            /\ (DuplicatePositions(form[s].items) # {} \/ proc[s].pc = "crashed")) =>
            /\ display[s].level = "error"
            /\ display[s].kind \in {"duplicate", "file_not_found"}

====
